---- MODULE Spec2Model ----
(***************************************************************************)
(* State-machine model of watch_takanawa_wharf.py: one run of main() and   *)
(* the pure helpers it calls.                                              *)
(*                                                                         *)
(* Strings are TLA+ strings; a URL is kept as the components urlparse      *)
(* yields (scheme, netloc, path, query), its path as the sequence of the   *)
(* "/" separators and the name pieces between them, so that split("/")     *)
(* is computed and not assumed.                                            *)
(***************************************************************************)
EXTENDS Integers, Sequences, FiniteSets, TLC

\* ------------------------------------------------------------------ bounds
MaxSlots == 2        \* slot entries per day in a timetable response (pure check)
MaxRunSlots == 2     \* slot entries per day in a response during a run of main
MaxPathLen == 5      \* pieces ("/" or a name) in a reservation URL's path

\* ------------------------------------------------------- generic helpers
RECURSIVE SeqsUpTo(_, _)
SeqsUpTo(S, n) ==
    IF n = 0 THEN {<<>>}
    ELSE LET shorter == SeqsUpTo(S, n - 1)
         IN  shorter \cup {Append(s, x) : s \in {t \in shorter : Len(t) = n - 1}, x \in S}

Range(s) == {s[i] : i \in 1..Len(s)}

\* ------------------------------------------------------------ within_window
\* now.hour is the zone-local hour of day
\* variant: the end hour taken as inclusive
within_window_inclusive(now_hour, start_h, end_h) == start_h <= now_hour /\ now_hour <= end_h

within_window(now_hour, start_h, end_h) == start_h <= now_hour /\ now_hour < end_h

\* ------------------------------------------------------------------ sec_to_hm
\* f"{n:02d}": at least two characters, zero-padded; a sign counts as one
Fmt02d(n) == IF n >= 0 /\ n < 10 THEN "0" \o ToString(n) ELSE ToString(n)

\* variant: the minutes taken without reducing to whole minutes
sec_to_hm_raw_minutes(sec) ==
    LET h == sec \div 3600
        m == sec % 3600
    IN  Fmt02d(h) \o ":" \o Fmt02d(m)

sec_to_hm(sec) ==
    LET h == sec \div 3600
        m == (sec % 3600) \div 60
    IN  Fmt02d(h) \o ":" \o Fmt02d(m)

\* sep.join(strs)
RECURSIVE Join(_, _)
Join(sep, strs) ==
    IF strs = <<>> THEN ""
    ELSE IF Len(strs) = 1 THEN strs[1]
    ELSE strs[1] \o sep \o Join(sep, Tail(strs))

\* ------------------------------------------------------------------- sorted
RECURSIVE Insert(_, _)
Insert(x, s) ==
    IF s = <<>> THEN <<x>>
    ELSE IF x < s[1] THEN <<x>> \o s
    ELSE <<s[1]>> \o Insert(x, Tail(s))

RECURSIVE sorted(_)
sorted(s) == IF s = <<>> THEN <<>> ELSE Insert(s[Len(s)], sorted(SubSeq(s, 1, Len(s) - 1)))

\* ---------------------------------------------------- extract_available_times
\* A slot entry: slot.get("seconds") is None iff ~has_seconds;
\* slot.get("available", False) is the flag, False when the key is absent.
SlotGetSeconds(slot) == IF slot.has_seconds THEN [none |-> FALSE, v |-> slot.seconds]
                        ELSE [none |-> TRUE, v |-> 0]
SlotGetAvailable(slot) == IF slot.has_available THEN slot.available ELSE FALSE

\* data.get("data", {}).get("slots", {}).get(target_date, {}).values():
\* data.slots is the date -> entries mapping (entries in dict order)
DaySlots(data, target_date) ==
    IF target_date \in DOMAIN data.slots THEN data.slots[target_date] ELSE <<>>

RECURSIVE FilterSlots(_, _, _)
FilterSlots(day_slots, start_sec, end_sec) ==
    IF day_slots = <<>> THEN <<>>
    ELSE LET slot == day_slots[1]
             seconds == SlotGetSeconds(slot)
             available == SlotGetAvailable(slot)
             rest == FilterSlots(Tail(day_slots), start_sec, end_sec)
         IN  IF seconds.none THEN rest
             ELSE IF start_sec <= seconds.v /\ seconds.v < end_sec /\ available
                  THEN <<seconds.v>> \o rest
                  ELSE rest

\* variant: the result returned in dict order, without sorted()
extract_available_times_unsorted(data, date, slot_start_hour, slot_end_hour) ==
    FilterSlots(DaySlots(data, date), slot_start_hour * 3600, slot_end_hour * 3600)

extract_available_times(data, target_date, slot_start_hour, slot_end_hour) ==
    LET day_slots == DaySlots(data, target_date)
        start_sec == slot_start_hour * 3600
        end_sec == slot_end_hour * 3600
    IN  sorted(FilterSlots(day_slots, start_sec, end_sec))

\* --------------------------------------------------------- build_timetable_url
\* path.split("/"): the pieces between separators, adjacent names run together
RECURSIVE SplitFrom(_, _)
SplitFrom(path, parts) ==
    IF path = <<>> THEN parts
    ELSE IF path[1] = "/" THEN SplitFrom(Tail(path), Append(parts, ""))
    ELSE SplitFrom(Tail(path),
                   [parts EXCEPT ![Len(parts)] = parts[Len(parts)] \o path[1]])

Split(path) == SplitFrom(path, <<"">>)

\* parts.index(x): the first position holding x (1-based here), 0 for ValueError
Index(parts, x) ==
    IF x \in Range(parts)
    THEN CHOOSE i \in 1..Len(parts) : parts[i] = x /\ \A j \in 1..(i - 1) : parts[j] # x
    ELSE 0

build_timetable_url(reserve_url) ==
    LET parts == Split(reserve_url.path)
        shops_idx == Index(parts, "shops")
    IN  IF shops_idx = 0 \/ shops_idx + 1 > Len(parts)
        THEN [raised |-> TRUE, url |-> ""]
        ELSE LET shop_id == parts[shops_idx + 1]
                 timetable_path == "/ja/shops/" \o shop_id \o "/available/timetable"
             IN  [raised |-> FALSE,
                  url |-> reserve_url.scheme \o "://" \o reserve_url.netloc \o timetable_path]

\* the reservation URL as the string the environment supplies
UrlString(u) ==
    u.scheme \o "://" \o u.netloc \o Join("", u.path)
        \o (IF u.query = "" THEN "" ELSE "?" \o u.query)

\* ----------------------------------------------------------- configuration
\* os.getenv defaults of main (lines 168-186); .strip() is applied by main,
\* so an all-blank credential arrives here as ""
target_date == "2025-12-24"
other_date == "2025-12-25"
num_people_adult == "2"

\* seat_categories, in dict (insertion) order; labels transliterated to ASCII
seat_categories ==
    << [key |-> "window_1st_couple", label |-> "madogiwa 1-retsume couple seat",
        service_category |-> "688ab4fb01b93519106912dd"],
       [key |-> "window_2nd_couple", label |-> "madogiwa 2-retsume couple seat",
        service_category |-> "688ab5618001bc122c53b18f"],
       [key |-> "view_2p_only", label |-> "2-mei senyou view seat",
        service_category |-> "6910dba6b600519f9e0efc07"] >>

NumCategories == Len(seat_categories)

LINE_PUSH_URL == "https://api.line.me/v2/bot/message/push"

\* ------------------------------------------------ environment: input domains
Hours == 0..23
NotifyWindows == {<<0, 1>>, <<9, 10>>, <<11, 9>>, <<23, 24>>}
SlotWindows == {<<18, 20>>, <<9, 19>>}
Credentials == {"", "secret"}
Recipients == {"", "U123"}
CsrfTokens == {"tokA", "tokB"}

DefaultUrl == [scheme |-> "https", netloc |-> "www.tablecheck.com",
               path |-> <<"/", "ja", "/", "shops", "/", "takanawa-wharf", "/", "reserve">>,
               query |-> "utm_source=hp"]
ReserveUrls ==
    { DefaultUrl,
      [DefaultUrl EXCEPT !.path = <<"/", "ja", "/", "takanawa-wharf", "/", "reserve">>],
      [DefaultUrl EXCEPT !.path = <<"/", "ja", "/", "shops">>, !.query = ""] }

\* responses of the reservation page: csrf_meta = "" when the page has no
\* <meta name="csrf-token" content="..."> with a non-empty content
\* (a 304 answer carries no body)
PageResponses ==
    {[transport_ok |-> FALSE, status |-> 0, csrf_meta |-> "", cookie |-> ""]}
    \cup [transport_ok : {TRUE}, status : {200, 404, 503},
          csrf_meta : {""} \cup CsrfTokens, cookie : {"sid=1"}]
    \cup {[transport_ok |-> TRUE, status |-> 304, csrf_meta |-> "", cookie |-> "sid=1"]}

\* slot entries of a timetable response
SlotEntry(hs, s, ha, a) ==
    [has_seconds |-> hs, seconds |-> s, has_available |-> ha, available |-> a]

RunEntries ==
    { SlotEntry(FALSE, 0, TRUE, TRUE),
      SlotEntry(TRUE, 66600, TRUE, TRUE),
      SlotEntry(TRUE, 32700, TRUE, TRUE),
      SlotEntry(TRUE, 66600, TRUE, FALSE) }

ObjectData(slots) == [kind |-> "object", slots |-> slots]
ArrayData == [kind |-> "array", slots |-> <<>>]

RunData ==
    {ObjectData((target_date :> s)) : s \in SeqsUpTo(RunEntries, MaxRunSlots)}
    \cup {ObjectData((other_date :> <<SlotEntry(TRUE, 64800, TRUE, TRUE)>>))}

\* responses of the timetable API: json is "invalid" when the body does not parse
TimetableResponses ==
    {[transport_ok |-> FALSE, status |-> 0, json |-> "invalid", data |-> ArrayData]}
    \cup [transport_ok : {TRUE}, status : {404, 500}, json : {"invalid"}, data : {ArrayData}]
    \cup [transport_ok : {TRUE}, status : {200}, json : {"invalid"}, data : {ArrayData}]
    \cup [transport_ok : {TRUE}, status : {200}, json : {"valid"}, data : {ArrayData}]
    \cup [transport_ok : {TRUE}, status : {200}, json : {"valid"}, data : RunData]

PushResponses ==
    {[transport_ok |-> FALSE, status |-> 0]}
    \cup [transport_ok : {TRUE}, status : {200, 300, 500}]

\* resp.raise_for_status(): HTTPError for 4xx and 5xx
raise_for_status(resp) == 400 <= resp.status /\ resp.status < 600

\* a network call as it leaves the process
HttpCall(method, url, session, token, category, date, to, text) ==
    [method |-> method, url |-> url, session |-> session, csrf_token |-> token,
     service_category |-> category, start_date |-> date, to |-> to, text |-> text]

NoSession == [cookies |-> ""]

\* --------------------------------------------- create_session_and_fetch_csrf
\* variant: a page without the meta tag is not treated as an error
create_session_without_token_check(reserve_url, resp) ==
    LET call == HttpCall("GET", UrlString(reserve_url), NoSession, "", "", "", "", "")
    IN  IF ~resp.transport_ok \/ raise_for_status(resp)
        THEN [raised |-> TRUE, call |-> call, session |-> NoSession, csrf_token |-> ""]
        ELSE [raised |-> FALSE, call |-> call,
              session |-> [cookies |-> resp.cookie], csrf_token |-> resp.csrf_meta]

create_session_and_fetch_csrf(reserve_url, resp) ==
    LET call == HttpCall("GET", UrlString(reserve_url), NoSession, "", "", "", "", "")
    IN  IF ~resp.transport_ok \/ raise_for_status(resp) \/ resp.csrf_meta = ""
        THEN [raised |-> TRUE, call |-> call, session |-> NoSession, csrf_token |-> ""]
        ELSE [raised |-> FALSE, call |-> call,
              session |-> [cookies |-> resp.cookie], csrf_token |-> resp.csrf_meta]

\* ----------------------------------------------------------- fetch_timetable
\* variant: the request sent outside the session (requests.get for session.get)
fetch_timetable_without_session(session, timetable_url, csrf_token, date, service_category, resp) ==
    LET call == HttpCall("GET", timetable_url, NoSession, csrf_token,
                         service_category, date, "", "")
    IN  IF ~resp.transport_ok \/ raise_for_status(resp) \/ resp.json = "invalid"
        THEN [raised |-> TRUE, call |-> call, data |-> ArrayData]
        ELSE [raised |-> FALSE, call |-> call, data |-> resp.data]

fetch_timetable(session, timetable_url, csrf_token, date, service_category, resp) ==
    LET call == HttpCall("GET", timetable_url, session, csrf_token,
                         service_category, date, "", "")
    IN  IF ~resp.transport_ok \/ raise_for_status(resp) \/ resp.json = "invalid"
        THEN [raised |-> TRUE, call |-> call, data |-> ArrayData]
        ELSE [raised |-> FALSE, call |-> call, data |-> resp.data]

\* ------------------------------------------------------------------ line_push
\* returns the calls made, the lines printed and whether an exception leaves it
PushResult(message, token, to_user_id, resp, catches) ==
    LET call == HttpCall("POST", LINE_PUSH_URL, NoSession, "Bearer " \o token,
                         "", "", to_user_id, message)
    IN  IF ~resp.transport_ok
        THEN [calls |-> <<call>>,
              printed |-> IF catches THEN <<"[WARN] LINE push exception">> ELSE <<>>,
              raised |-> ~catches]
        ELSE IF resp.status >= 300
        THEN [calls |-> <<call>>,
              printed |-> <<"[WARN] LINE push failed: " \o ToString(resp.status)>>,
              raised |-> FALSE]
        ELSE [calls |-> <<call>>, printed |-> <<>>, raised |-> FALSE]

PrintInstead(message) ==
    [calls |-> <<>>,
     printed |-> <<"[WARN] LINE credentials not set; printing message instead:", message>>,
     raised |-> FALSE]

\* variant: the fallback taken only when both credentials are missing
line_push_and(message, token, to_user_id, resp) ==
    IF token = "" /\ to_user_id = ""
    THEN PrintInstead(message)
    ELSE PushResult(message, token, to_user_id, resp, TRUE)

\* variant: the POST made without the try/except around it
line_push_uncaught(message, token, to_user_id, resp) ==
    IF token = "" \/ to_user_id = ""
    THEN PrintInstead(message)
    ELSE PushResult(message, token, to_user_id, resp, FALSE)

line_push(message, token, to_user_id, resp) ==
    IF token = "" \/ to_user_id = ""
    THEN PrintInstead(message)
    ELSE PushResult(message, token, to_user_id, resp, TRUE)

\* ------------------------------------------------------------------- state
VARIABLES
    pc,                 \* position in main / in the pure-function harness
    now_hour,           \* now_local.hour
    notify_start_hour, notify_end_hour,
    slot_start_hour, slot_end_hour,
    reserve_url, line_token, line_to_user,
    session, csrf_token, timetable_url,
    idx,                \* 1-based position of the for loop in seat_categories
    any_available, lines_for_message, message,
    calls,              \* the network calls made so far, in order
    stdout,             \* the lines printed so far
    exit_status,        \* "running", "ok" (main returned), "exception" (one escaped)
    page_response,      \* history: what the reservation page answered
    results,            \* history: per processed category, failed or its times_sec
    line_push_calls,    \* history: how often line_push was entered
    arg, ret            \* input and result of a pure function under check

cfgVars == <<now_hour, notify_start_hour, notify_end_hour, slot_start_hour,
             slot_end_hour, reserve_url, line_token, line_to_user>>
runVars == <<session, csrf_token, timetable_url, idx, any_available,
             lines_for_message, message, calls, stdout, exit_status,
             page_response, results, line_push_calls>>
vars == <<pc, cfgVars, runVars, arg, ret>>

NoPage == [transport_ok |-> FALSE, status |-> -1, csrf_meta |-> "", cookie |-> ""]

RunStart ==
    /\ session = NoSession
    /\ csrf_token = ""
    /\ timetable_url = ""
    /\ idx = 0
    /\ any_available = FALSE
    /\ lines_for_message = <<>>
    /\ message = ""
    /\ calls = <<>>
    /\ stdout = <<>>
    /\ exit_status = "running"
    /\ page_response = NoPage
    /\ results = <<>>
    /\ line_push_calls = 0

\* the state of main after the configuration is read (lines 165-204)
Init ==
    /\ pc = "gate"
    /\ now_hour \in Hours
    /\ \E w \in NotifyWindows : notify_start_hour = w[1] /\ notify_end_hour = w[2]
    /\ \E w \in SlotWindows : slot_start_hour = w[1] /\ slot_end_hour = w[2]
    /\ reserve_url \in ReserveUrls
    /\ line_token \in Credentials
    /\ line_to_user \in Recipients
    /\ RunStart
    /\ arg = <<>>
    /\ ret = <<>>

\* ---------------------------------------------------------------------- main
HeaderLine(date, s, e) ==
    "[Takanawa WHARF] " \o date \o " " \o ToString(s) \o ":00-" \o ToString(e)
        \o ":00 no aki joukyou"

TimesStr(times_sec) == Join(", ", [i \in 1..Len(times_sec) |-> sec_to_hm(times_sec[i])])

CategoryLine(label, times_sec) == "- " \o label \o ": " \o TimesStr(times_sec)

\* lines 204-214: the notify-hours gate
Gate ==
    /\ pc = "gate"
    /\ IF ~within_window(now_hour, notify_start_hour, notify_end_hour)
       THEN /\ stdout' = Append(stdout, "skip (outside notify window "
                            \o ToString(notify_start_hour) \o "-"
                            \o ToString(notify_end_hour) \o ")")
            /\ exit_status' = "ok"
            /\ pc' = "done"
       ELSE /\ stdout' = Append(stdout, "start check")
            /\ exit_status' = exit_status
            /\ pc' = "bootstrap"
    /\ UNCHANGED <<cfgVars, session, csrf_token, timetable_url, idx, any_available,
                   lines_for_message, message, calls, page_response, results,
                   line_push_calls, arg, ret>>

\* lines 216-220: try create_session_and_fetch_csrf / except Exception: return
Bootstrap ==
    /\ pc = "bootstrap"
    /\ \E resp \in PageResponses :
         LET r == create_session_and_fetch_csrf(reserve_url, resp)
         IN  /\ calls' = Append(calls, r.call)
             /\ page_response' = resp
             /\ IF r.raised
                THEN /\ stdout' = Append(stdout, "[ERROR] failed to fetch CSRF token")
                     /\ exit_status' = "ok"
                     /\ pc' = "done"
                     /\ UNCHANGED <<session, csrf_token>>
                ELSE /\ session' = r.session
                     /\ csrf_token' = r.csrf_token
                     /\ pc' = "build_url"
                     /\ UNCHANGED <<stdout, exit_status>>
    /\ UNCHANGED <<cfgVars, timetable_url, idx, any_available, lines_for_message,
                   message, results, line_push_calls, arg, ret>>

\* lines 222-232: try build_timetable_url / except Exception: return; loop set-up
BuildUrl ==
    /\ pc = "build_url"
    /\ LET r == build_timetable_url(reserve_url)
       IN  IF r.raised
           THEN /\ stdout' = Append(stdout, "[ERROR] failed to build timetable URL")
                /\ exit_status' = "ok"
                /\ pc' = "done"
                /\ UNCHANGED <<timetable_url, idx, any_available, lines_for_message>>
           ELSE /\ timetable_url' = r.url
                /\ any_available' = FALSE
                /\ lines_for_message' =
                       <<HeaderLine(target_date, slot_start_hour, slot_end_hour)>>
                /\ idx' = 1
                /\ pc' = "loop"
                /\ UNCHANGED <<stdout, exit_status>>
    /\ UNCHANGED <<cfgVars, session, csrf_token, message, calls, page_response,
                   results, line_push_calls, arg, ret>>

\* the try block of lines 238-253 for one response: the fetch raises, or the
\* filter raises (AttributeError: resp.json() is not a dict), or times_sec
TryFetchAndExtract(seat, resp) ==
    LET f == fetch_timetable(session, timetable_url, csrf_token, target_date,
                             seat.service_category, resp)
    IN  IF f.raised \/ f.data.kind # "object"
        THEN [raised |-> TRUE, call |-> f.call, times_sec |-> <<>>]
        ELSE [raised |-> FALSE, call |-> f.call,
              times_sec |-> extract_available_times(f.data, target_date,
                                                    slot_start_hour, slot_end_hour)]

\* variant: the flag overwritten by every category
AnyAvailableOverwritten(prev, times_sec) == times_sec # <<>>

\* lines 258-259: `if times_sec: any_available = True`
AnyAvailableAfter(prev, times_sec) == IF times_sec # <<>> THEN TRUE ELSE prev

\* variant: `break` for `continue` in the except branch
LoopNextBreakOnFailure(i, raised) ==
    IF raised \/ i = NumCategories THEN "finish" ELSE "loop"

\* lines 234, 256: `continue` after a failure and the normal end of an iteration
\* both go on to the next category; after the last one the loop is left
LoopNext(i, raised) == IF i = NumCategories THEN "finish" ELSE "loop"

\* lines 234-264: one iteration of the for loop
FetchCategory ==
    /\ pc = "loop"
    /\ idx <= NumCategories
    /\ \E resp \in TimetableResponses :
         LET seat == seat_categories[idx]
             t == TryFetchAndExtract(seat, resp)
         IN  /\ calls' = Append(calls, t.call)
             /\ results' = Append(results, [raised |-> t.raised, times_sec |-> t.times_sec])
             /\ IF t.raised
                THEN /\ stdout' = Append(stdout,
                            "[ERROR] timetable fetch failed [" \o seat.label \o "]")
                     /\ UNCHANGED <<any_available, lines_for_message>>
                ELSE IF t.times_sec # <<>>
                THEN /\ any_available' = AnyAvailableAfter(any_available, t.times_sec)
                     /\ stdout' = Append(stdout, "  - available [" \o seat.label \o "]: "
                                                 \o TimesStr(t.times_sec))
                     /\ lines_for_message' =
                            Append(lines_for_message, CategoryLine(seat.label, t.times_sec))
                ELSE /\ any_available' = AnyAvailableAfter(any_available, t.times_sec)
                     /\ stdout' = Append(stdout, "  - no availability [" \o seat.label \o "]")
                     /\ UNCHANGED lines_for_message
             /\ pc' = LoopNext(idx, t.raised)
    /\ idx' = idx + 1
    /\ UNCHANGED <<cfgVars, session, csrf_token, timetable_url, message, exit_status,
                   page_response, line_push_calls, arg, ret>>

\* lines 266-272: hand the message to line_push, or log that nothing was found
Finish ==
    /\ pc = "finish"
    /\ IF any_available
       THEN \E resp \in PushResponses :
              LET lines == lines_for_message \o <<"", UrlString(reserve_url)>>
                  msg == Join("\n", lines)
                  p == line_push(msg, line_token, line_to_user, resp)
              IN  /\ lines_for_message' = lines
                  /\ message' = msg
                  /\ line_push_calls' = line_push_calls + 1
                  /\ calls' = calls \o p.calls
                  /\ stdout' = stdout \o p.printed
                  /\ exit_status' = IF p.raised THEN "exception" ELSE "ok"
       ELSE /\ stdout' = Append(stdout, "no slots found; no LINE push")
            /\ exit_status' = "ok"
            /\ UNCHANGED <<lines_for_message, message, line_push_calls, calls>>
    /\ pc' = "done"
    /\ UNCHANGED <<cfgVars, session, csrf_token, timetable_url, idx, any_available,
                   page_response, results, arg, ret>>

Next == Gate \/ Bootstrap \/ BuildUrl \/ FetchCategory \/ Finish

Spec == Init /\ [][Next]_vars

\* main is sequential code: whenever a step is possible it is taken
FairSpec == Spec /\ WF_vars(Next)

\* ------------------------------------- harness: extract_available_times alone
ExtractSeconds == {0, 64799, 64800, 71999, 72000}
ExtractEntries ==
    {SlotEntry(FALSE, 0, ha, a) : ha \in BOOLEAN, a \in BOOLEAN}
    \cup {SlotEntry(TRUE, s, ha, a) : s \in ExtractSeconds, ha \in BOOLEAN, a \in BOOLEAN}
ExtractData ==
    {ObjectData((target_date :> s)) : s \in SeqsUpTo(ExtractEntries, MaxSlots)}
    \cup {ObjectData((other_date :> <<SlotEntry(TRUE, 64800, TRUE, TRUE)>>)),
          ObjectData(<<>>)}
SlotRanges == {<<18, 20>>, <<0, 24>>, <<20, 18>>, <<18, 18>>, <<0, 18>>}

InitExtract ==
    /\ pc = "call_extract"
    /\ arg \in [data : ExtractData, range : SlotRanges]
    /\ ret = <<>>
    /\ now_hour = 0 /\ notify_start_hour = 0 /\ notify_end_hour = 24
    /\ slot_start_hour = arg.range[1] /\ slot_end_hour = arg.range[2]
    /\ reserve_url = DefaultUrl /\ line_token = "" /\ line_to_user = ""
    /\ RunStart

ExtractCall ==
    /\ pc = "call_extract"
    /\ ret' = extract_available_times(arg.data, target_date, slot_start_hour, slot_end_hour)
    /\ pc' = "returned"
    /\ UNCHANGED <<cfgVars, runVars, arg>>

SpecExtract == InitExtract /\ [][ExtractCall]_vars

\* ----------------------------------------- harness: build_timetable_url alone
PathPieces == {"/", "ja", "shops", "x"}
\* urlparse of an absolute URL yields a path that is empty or starts with "/"
UrlPaths == {p \in SeqsUpTo(PathPieces, MaxPathLen) : p = <<>> \/ p[1] = "/"}

InitUrl ==
    /\ pc = "call_build_url"
    /\ arg \in [scheme : {"https", "http"},
                netloc : {"www.tablecheck.com", "example.org:8080"},
                path : UrlPaths, query : {""}]
    /\ ret = [raised |-> FALSE, url |-> ""]
    /\ now_hour = 0 /\ notify_start_hour = 0 /\ notify_end_hour = 24
    /\ slot_start_hour = 18 /\ slot_end_hour = 20
    /\ reserve_url = arg /\ line_token = "" /\ line_to_user = ""
    /\ RunStart

UrlCall ==
    /\ pc = "call_build_url"
    /\ ret' = build_timetable_url(reserve_url)
    /\ pc' = "returned"
    /\ UNCHANGED <<cfgVars, runVars, arg>>

SpecUrl == InitUrl /\ [][UrlCall]_vars

\* ===================================================================== claims
IsBootstrapCall(c) ==
    c.method = "GET" /\ c.url = UrlString(reserve_url) /\ c.service_category = ""
IsFetchCall(c) == c.method = "GET" /\ c.service_category # ""
IsPushCall(c) == c.method = "POST"
Count(s, P(_)) == Cardinality({i \in 1..Len(s) : P(s[i])})

InNotifyWindow == notify_start_hour <= now_hour /\ now_hour < notify_end_hour

\* C1: past the gate, the run goes on to the bootstrap call exactly when
\* start_hour <= h < end_hour (also for end_hour < start_hour); otherwise it
\* has ended successfully without any network call.
C1_GateIffInWindow ==
    pc # "gate" =>
        /\ ~InNotifyWindow =>
              /\ pc = "done" /\ exit_status = "ok"
              /\ calls = <<>> /\ line_push_calls = 0
        /\ InNotifyWindow =>
              \/ pc = "bootstrap" /\ calls = <<>>
              \/ calls # <<>> /\ IsBootstrapCall(calls[1])

\* a run skipped by a window whose end lies before its start
C1_Witness ==
    /\ pc = "done" /\ exit_status = "ok" /\ calls = <<>>
    /\ notify_end_hour < notify_start_hour
    /\ now_hour >= notify_start_hour

PageFailed(resp) ==
    \/ ~resp.transport_ok
    \/ (400 <= resp.status /\ resp.status < 600)
    \/ resp.csrf_meta = ""

PathHasShopSegment(path) ==
    LET parts == Split(path)
    IN  \E i \in 1..(Len(parts) - 1) : parts[i] = "shops"

\* C2: when the bootstrap fails (transport error, 4xx/5xx status, no csrf-token
\* meta tag) or the URL builder fails, the run ends with the bootstrap call as
\* its only network call: no timetable fetch, no Notifier.
C2_FatalFailures ==
    /\ (page_response # NoPage /\ PageFailed(page_response)) =>
          /\ pc = "done"
          /\ Len(calls) = 1 /\ Count(calls, IsFetchCall) = 0
          /\ Count(calls, IsPushCall) = 0 /\ line_push_calls = 0
    /\ (page_response # NoPage /\ ~PageFailed(page_response)
            /\ ~PathHasShopSegment(reserve_url.path)) =>
          /\ pc \in {"build_url", "done"}
          /\ Len(calls) = 1 /\ Count(calls, IsFetchCall) = 0
          /\ Count(calls, IsPushCall) = 0 /\ line_push_calls = 0

\* a run ended by a page that answered 200 without the meta tag
C2_Witness ==
    /\ pc = "done" /\ page_response.transport_ok /\ page_response.status = 200
    /\ page_response.csrf_meta = "" /\ Len(calls) = 1

PastUrlBuilder == timetable_url # ""
LoopLeft == PastUrlBuilder /\ pc \in {"finish", "done"}

\* the times a category contributes: none when it failed
EffectiveTimes(r) == IF r.raised THEN <<>> ELSE r.times_sec

RECURSIVE ExpectedCategoryLines(_, _)
ExpectedCategoryLines(rs, i) ==
    IF i > Len(rs) THEN <<>>
    ELSE (IF EffectiveTimes(rs[i]) # <<>>
          THEN <<"- " \o seat_categories[i].label \o ": "
                    \o TimesStr(EffectiveTimes(rs[i]))>>
          ELSE <<>>)
         \o ExpectedCategoryLines(rs, i + 1)

FetchCalls == SelectSeq(calls, IsFetchCall)

\* C3: after bootstrap and URL building, whichever categories fail, every
\* category is fetched exactly once and in order, a failed category sets no
\* flag and adds no line, and flag and lines are what the other categories
\* give with the failed ones counted as empty.
C3_FailuresDoNotAbort ==
    PastUrlBuilder =>
        /\ Len(FetchCalls) = Len(results)
        /\ \A i \in 1..Len(FetchCalls) :
              FetchCalls[i].service_category = seat_categories[i].service_category
        /\ LoopLeft => Len(results) = NumCategories
        /\ pc = "loop" => Len(results) = idx - 1 /\ idx <= NumCategories
        /\ any_available = (\E i \in 1..Len(results) : EffectiveTimes(results[i]) # <<>>)
        /\ \A i \in 1..Len(results) : results[i].raised => results[i].times_sec = <<>>
        /\ SubSeq(lines_for_message, 2,
                  Len(lines_for_message) - (IF line_push_calls > 0 THEN 2 ELSE 0))
               = ExpectedCategoryLines(results, 1)

\* the first category failed, the second had no slot, the third had one
C3_Witness ==
    /\ LoopLeft /\ Len(results) = NumCategories
    /\ results[1].raised
    /\ ~results[2].raised /\ results[2].times_sec = <<>>
    /\ ~results[3].raised /\ results[3].times_sec # <<>>
    /\ any_available

SomeCategoryAvailable == \E i \in 1..Len(results) : results[i].times_sec # <<>>

\* C4: in a run past bootstrap and URL building the Notifier is entered once,
\* after the last category, iff some category's filtered list is non-empty;
\* otherwise nothing is delivered and the run logs that no slots were found.
C4_NotifyIffAvailable ==
    PastUrlBuilder =>
        /\ pc # "done" => line_push_calls = 0 /\ Count(calls, IsPushCall) = 0
        /\ pc = "done" =>
              /\ Len(results) = NumCategories
              /\ line_push_calls = (IF SomeCategoryAvailable THEN 1 ELSE 0)
              /\ ~SomeCategoryAvailable =>
                    /\ Count(calls, IsPushCall) = 0
                    /\ stdout[Len(stdout)] = "no slots found; no LINE push"

\* only the first category had slots, and the Notifier was entered
C4_Witness ==
    /\ pc = "done" /\ PastUrlBuilder /\ line_push_calls = 1
    /\ results[1].times_sec # <<>>
    /\ results[2].times_sec = <<>> /\ results[3].times_sec = <<>>

\* ------------------------------------------------------------------ C5
Qualifies(slot, start_hour, end_hour) ==
    /\ slot.has_seconds
    /\ start_hour * 3600 <= slot.seconds /\ slot.seconds < end_hour * 3600
    /\ slot.has_available /\ slot.available

Occurrences(s, v) == Cardinality({i \in 1..Len(s) : s[i] = v})

ArgDaySlots ==
    IF target_date \in DOMAIN arg.data.slots THEN arg.data.slots[target_date] ELSE <<>>

\* C5: extract_available_times returns, in ascending order, exactly the
\* seconds values (each as often as it occurs) of the target date's entries
\* that have a seconds value inside [start*3600, end*3600) and a true
\* availability flag; a response without the target date gives the empty list.
C5_ExtractExact ==
    pc = "returned" =>
        /\ \A i \in 1..(Len(ret) - 1) : ret[i] <= ret[i + 1]
        /\ \A v \in ExtractSeconds \cup Range(ret) :
              Occurrences(ret, v) =
                  Cardinality({i \in 1..Len(ArgDaySlots) :
                                 /\ Qualifies(ArgDaySlots[i], arg.range[1], arg.range[2])
                                 /\ ArgDaySlots[i].seconds = v})
        /\ target_date \notin DOMAIN arg.data.slots => ret = <<>>

\* two qualifying entries arrive in descending order and come out ascending
C5_Witness ==
    /\ pc = "returned" /\ Len(ArgDaySlots) = 2
    /\ ArgDaySlots[1].seconds > ArgDaySlots[2].seconds
    /\ Len(ret) = 2 /\ ret[1] < ret[2]

\* ------------------------------------------------------------------ C6
PushCalls == SelectSeq(calls, IsPushCall)

\* C6: once the Notifier has been entered, it has made the push POST iff both
\* the delivery token and the recipient are non-empty: with both, exactly one
\* POST carrying the message text and the recipient; otherwise no call, and
\* the message printed after the warning.
C6_PushIffCredentials ==
    /\ line_push_calls = 0 => PushCalls = <<>>
    /\ line_push_calls > 0 =>
          IF line_token # "" /\ line_to_user # ""
          THEN /\ Len(PushCalls) = 1
               /\ PushCalls[1].url = LINE_PUSH_URL
               /\ PushCalls[1].text = message
               /\ PushCalls[1].to = line_to_user
               /\ PushCalls[1].csrf_token = "Bearer " \o line_token
               /\ message \notin Range(stdout)
          ELSE /\ PushCalls = <<>>
               /\ stdout[Len(stdout)] = message
               /\ stdout[Len(stdout) - 1]
                      = "[WARN] LINE credentials not set; printing message instead:"

\* the token is set, the recipient is not: the message is printed, no POST
C6_Witness ==
    /\ line_push_calls = 1 /\ line_token # "" /\ line_to_user = ""
    /\ PushCalls = <<>> /\ stdout[Len(stdout)] = message

\* ------------------------------------------------------------------ C7
\* C7: every run ends, and ends with main returning normally, on every path:
\* gate skip, bootstrap failure, URL-builder failure, any per-category
\* failures, no availability, and a delivery answered >= 300 or failing in
\* transport.
C7_TerminatesSuccessfully == <>(pc = "done" /\ exit_status = "ok")

\* a run that ended normally although the delivery failed in transport
C7_Witness ==
    /\ pc = "done" /\ exit_status = "ok" /\ Len(PushCalls) = 1
    /\ stdout[Len(stdout)] = "[WARN] LINE push exception"

\* ------------------------------------------------------------------ C8
RetParts == Split(arg.path)
FirstShops(parts, i) == parts[i] = "shops" /\ \A j \in 1..(i - 1) : parts[j] # "shops"

\* the path ends at its first shops segment, with or without a trailing slash
EndsAtShops(parts) ==
    \E i \in 1..Len(parts) :
        /\ FirstShops(parts, i)
        /\ \/ i = Len(parts)
           \/ i = Len(parts) - 1 /\ parts[Len(parts)] = ""

ExpectedTimetableUrl(parts) ==
    LET i == CHOOSE k \in 1..Len(parts) : FirstShops(parts, k)
    IN  arg.scheme \o "://" \o arg.netloc \o "/ja/shops/" \o parts[i + 1]
            \o "/available/timetable"

\* C8: build_timetable_url fails when the path has no shops segment or ends at
\* shops (with or without a trailing slash); otherwise it returns scheme and
\* host of the input with the path /ja/shops/<id>/available/timetable, <id>
\* the segment right after the first shops segment.
C8_BuildTimetableUrl ==
    pc = "returned" =>
        IF "shops" \notin Range(RetParts) \/ EndsAtShops(RetParts)
        THEN ret.raised
        ELSE ~ret.raised /\ ret.url = ExpectedTimetableUrl(RetParts)

\* what the code does: it fails only when the first shops segment is the last
\* piece of split("/"); a trailing slash leaves an empty piece that is taken
\* as the shop identifier
C8_CodeBehaviour ==
    pc = "returned" =>
        IF "shops" \notin Range(RetParts) \/ FirstShops(RetParts, Len(RetParts))
        THEN ret.raised
        ELSE ~ret.raised /\ ret.url = ExpectedTimetableUrl(RetParts)

\* ------------------------------------------------------------------ C9
\* C9: the network calls of a run are a prefix of: the bootstrap call, the
\* three timetable fetches in category order, each with the session and the
\* token the bootstrap call gave, and the push call; never more than five.
C9_CallOrder ==
    /\ Len(calls) <= 5
    /\ \A k \in 1..Len(calls) :
          /\ k = 1 => IsBootstrapCall(calls[k])
          /\ k \in 2..(NumCategories + 1) =>
                /\ IsFetchCall(calls[k])
                /\ calls[k].url = timetable_url
                /\ calls[k].service_category = seat_categories[k - 1].service_category
                /\ calls[k].csrf_token = page_response.csrf_meta
                /\ calls[k].session = [cookies |-> page_response.cookie]
                /\ calls[k].csrf_token = calls[2].csrf_token
                /\ calls[k].session = calls[2].session
          /\ k = NumCategories + 2 => IsPushCall(calls[k])
    /\ Count(calls, IsBootstrapCall) <= 1
    /\ Count(calls, IsFetchCall) <= NumCategories
    /\ Count(calls, IsPushCall) <= 1

\* a run that made all five calls, with the second of the two tokens
C9_Witness ==
    /\ pc = "done" /\ Len(calls) = 5 /\ IsPushCall(calls[5])
    /\ calls[4].csrf_token = "tokB"

\* ------------------------------------------------------------------ C10
TwoDigits(n) == ToString(n \div 10) \o ToString(n % 10)
ExpectedHM(sec) == TwoDigits(sec \div 3600) \o ":" \o TwoDigits((sec % 3600) \div 60)

RECURSIVE ExpectedTimes(_)
ExpectedTimes(ts) ==
    IF Len(ts) = 1 THEN ExpectedHM(ts[1])
    ELSE ExpectedHM(ts[1]) \o ", " \o ExpectedTimes(Tail(ts))

AvailableIdx == {i \in 1..Len(results) : results[i].times_sec # <<>>}
\* position among the categories with availability
Rank(i) == Cardinality({j \in AvailableIdx : j <= i})

\* C10: the message handed to the Notifier has k + 3 lines, k >= 1 the number
\* of categories with a non-empty filtered list: the header, one line per such
\* category in category order listing its times ascending as HH:MM, an empty
\* line, and the reservation URL.
C10_MessageLines ==
    line_push_calls > 0 =>
        LET k == Cardinality(AvailableIdx)
        IN  /\ k >= 1
            /\ Len(lines_for_message) = k + 3
            /\ lines_for_message[1]
                   = HeaderLine(target_date, slot_start_hour, slot_end_hour)
            /\ \A i \in AvailableIdx :
                  /\ \A a \in 1..(Len(results[i].times_sec) - 1) :
                        results[i].times_sec[a] <= results[i].times_sec[a + 1]
                  /\ lines_for_message[1 + Rank(i)]
                         = "- " \o seat_categories[i].label \o ": "
                               \o ExpectedTimes(results[i].times_sec)
            /\ lines_for_message[k + 2] = ""
            /\ lines_for_message[k + 3] = UrlString(reserve_url)
            /\ message = Join("\n", lines_for_message)

\* first and third category available, the third with 09:05 and 18:30
C10_Witness ==
    /\ line_push_calls = 1 /\ AvailableIdx = {1, 3}
    /\ results[3].times_sec = <<32700, 66600>>
    /\ Len(lines_for_message) = 5

====
